---- MODULE Spec2Model ----
(***************************************************************************)
(* A model of the stager crate's resolution pipeline: the stage-path       *)
(* normaliser of de.rs (abs_to_rel), the action builders of builder.rs     *)
(* (Stage, SourceFile, SourceFiles, Symlink), the specification builders   *)
(* and specifications of spec.rs (resolve and stage of SourceFile,         *)
(* SourceFiles, Symlink), the Filesystem target of fs.rs, perform of       *)
(* action.rs and the error aggregation of error.rs (Errors,                *)
(* ErrorPartition).                                                        *)
(*                                                                         *)
(* Strings and paths are sequences of one-character strings, so that the   *)
(* string algorithms of the source (starts_with, trim_left_matches, split, *)
(* Path::components, Path::file_name, Path::join) are computed and not     *)
(* assumed.                                                                *)
(***************************************************************************)
EXTENDS Naturals, Sequences, FiniteSets, TLC

VARIABLES
    abs,         \* de.rs abs_to_rel: the argument `abs`
    a2r,         \* de.rs abs_to_rel: the returned Result (tag "none" before the call)
    stage,       \* builder.rs Stage: the map from target directory to sources
    target_dir,  \* the `target_dir` argument of build and resolve: the stage root
    built,       \* builder.rs Stage::build: the returned Result
    visited,     \* builder.rs Stage::build: the nodes whose build was called
    node,        \* one source node (builder.rs SourceFile, spec.rs SourceFileBuilder)
    resolved,    \* spec.rs SourceFileBuilder::resolve: the returned Result
    nbuilt,      \* builder.rs SourceFile::build: the returned Result
    ops,         \* staging.rs Staging: the calls made on the staging target
    stage_result, \* spec.rs Specification::stage: the returned Result
    tree,        \* the source tree as the glob walk of a SourceFiles node yields it
    reads,       \* the glob walks run over the source tree, by the call that ran them
    fs_root,     \* fs.rs Filesystem: the field `root`
    target_os,   \* the platform of the build (cfg target_os of fs.rs)
    fs_log       \* the calls of the OS primitives of std::fs, in order

vars == <<abs, a2r, stage, target_dir, built, visited, node, resolved, nbuilt, ops,
          stage_result, tree, reads, fs_root, target_os, fs_log>>

pathVars == <<abs, a2r>>
buildVars == <<stage, target_dir, built, visited>>
nodeVars == <<node, resolved, nbuilt, ops, stage_result, tree, reads>>
fsVars == <<fs_root, target_os, fs_log>>

(***************************************************************************)
(* Bounds of the model.                                                    *)
(***************************************************************************)
\* longest enumerated argument of abs_to_rel, in characters
MaxLen == 8

\* most nodes of a stage map, over all its target directories
MaxTotalNodes == 3

\* longest enumerated rename of a node, in characters
MaxNameLen == 3

\* most symlink aliases of an enumerated SourceFile node
MaxLinks == 2

\* most entries the glob walk of a SourceFiles node yields
MaxEntries == 2

\* most calls made on the Filesystem target and performed actions together
MaxOps == 2

(***************************************************************************)
(* Characters and strings.                                                 *)
(***************************************************************************)
Sep == "/"
Dot == "."

\* the alphabet the enumerated arguments of abs_to_rel are drawn from
Alphabet == {Sep, Dot, "a"}

\* all strings over Alphabet of length 0..n
StringsUpTo(n) == UNION {[1..k -> Alphabet] : k \in 0..n}

\* the component ".."
DotDot == <<Dot, Dot>>

\* str::starts_with(char)
StartsWith(s, c) == Len(s) > 0 /\ s[1] = c

\* str::trim_left_matches(char): drop every leading occurrence of c
RECURSIVE TrimLeftMatches(_, _)
TrimLeftMatches(s, c) ==
    IF StartsWith(s, c) THEN TrimLeftMatches(Tail(s), c) ELSE s

\* str::split(char): the pieces between separators; n separators give n+1
\* pieces, empty ones included (the empty string splits into one empty piece)
RECURSIVE SplitFrom(_, _, _)
SplitFrom(s, c, cur) ==
    IF s = <<>> THEN <<cur>>
    ELSE IF Head(s) = c THEN <<cur>> \o SplitFrom(Tail(s), c, <<>>)
    ELSE SplitFrom(Tail(s), c, Append(cur, Head(s)))

Split(s, c) == SplitFrom(s, c, <<>>)

(***************************************************************************)
(* error.rs: ErrorKind, StagingError.  A StagingError is modelled by its   *)
(* kind and its context: the message and the value formatted into it.      *)
(***************************************************************************)
InvalidConfiguration == "InvalidConfiguration"
HarvestingFailed == "HarvestingFailed"
StagingFailed == "StagingFailed"

StagingError(kind, context) == [kind |-> kind, context |-> context]

(***************************************************************************)
(* de.rs: abs_to_rel.  The PathBuf being built holds only components that  *)
(* were pushed one at a time and contain no separator; it is modelled as   *)
(* the sequence of those components.                                       *)
(***************************************************************************)
NoResult == [tag |-> "none", path |-> <<>>, kind |-> "", context |-> <<>>]
OkPath(p) == [tag |-> "ok", path |-> p, kind |-> "", context |-> <<>>]
ErrPath(e) == [tag |-> "err", path |-> <<>>, kind |-> e.kind, context |-> e.context]

\* mutant: "." components are not filtered out
KeepPartNoDot(s) == s /= <<>>

\* the closure of line 313: |s| !s.is_empty() && *s != "."
KeepPart(s) == s /= <<>> /\ s /= <<Dot>>

\* mutant: the result of pop() is ignored, a ".." at the root is swallowed
PathPopAlways(path) == TRUE

\* PathBuf::pop: FALSE (and no change) when there is no parent, which for a
\* relative path of plain components is exactly when it is empty
PathPopOk(path) == path /= <<>>

\* Iterator::filter of line 313 over the split pieces
RECURSIVE FilterParts(_)
FilterParts(s) ==
    IF s = <<>> THEN <<>>
    ELSE IF KeepPart(Head(s)) THEN <<Head(s)>> \o FilterParts(Tail(s))
    ELSE FilterParts(Tail(s))

PathPop(path) == IF path = <<>> THEN path ELSE SubSeq(path, 1, Len(path) - 1)

\* the loop of lines 313-323
RECURSIVE AbsToRelLoop(_, _, _)
AbsToRelLoop(parts, path, s) ==
    IF parts = <<>> THEN OkPath(path)
    ELSE IF Head(parts) = DotDot
         THEN IF ~PathPopOk(path)
              THEN ErrPath(StagingError(InvalidConfiguration, <<"Path is outside of staging root", s>>))
              ELSE AbsToRelLoop(Tail(parts), PathPop(path), s)
         ELSE AbsToRelLoop(Tail(parts), Append(path, Head(parts)), s)

\* mutant: the leading-separator check is dropped
AbsToRelNoCheck(s) == TRUE

\* the guard of line 305: abs.starts_with('/')
AbsToRelIsAbs(s) == StartsWith(s, Sep)

AbsToRel(s) ==
    IF ~AbsToRelIsAbs(s)
    THEN ErrPath(StagingError(InvalidConfiguration, <<"Path is not absolute (within the stage)", s>>))
    ELSE LET rel == TrimLeftMatches(s, Sep)
         IN  AbsToRelLoop(FilterParts(Split(rel, Sep)), <<>>, s)

(***************************************************************************)
(* The arguments of the unit tests of de.rs (lines 331-379).               *)
(***************************************************************************)
Hello == <<"h", "e", "l", "l", "o">>
World == <<"w", "o", "r", "l", "d">>
Goodbye == <<"g", "o", "o", "d", "b", "y", "e">>
Foo == <<"f", "o", "o">>
Bar == <<"b", "a", "r">>
S == <<Sep>>

TestRel1 == <<Dot>> \o S \o Hello \o S \o World                \* "./hello/world"
TestRel2 == Hello \o S \o World                                \* "hello/world"
TestPlain == S \o Hello \o S \o World                          \* "/hello/world"
TestNop1 == S \o Hello \o S \o S \o World                      \* "/hello//world"
TestNop2 == S \o Hello \o S \o <<Dot>> \o S \o World           \* "/hello/./world"
TestUpRoot == S \o Hello \o S \o DotDot \o S \o Goodbye \o S \o World
TestUps == S \o Hello \o S \o World \o S \o DotDot \o S \o DotDot \o S \o Foo \o S \o Bar
TestLeaf == S \o Hello \o S \o World \o S \o Foo \o S \o Bar \o S \o DotDot \o S \o DotDot

TestInputs ==
    {TestRel1, TestRel2, TestPlain, TestNop1, TestNop2, TestUpRoot, TestUps, TestLeaf}

(***************************************************************************)
(* std::path on unix, over strings: what builder.rs and spec.rs use of it. *)
(***************************************************************************)
None == [some |-> FALSE, val |-> <<>>]
Some(v) == [some |-> TRUE, val |-> v]

\* Path::is_absolute: the path has a root
IsAbsolute(p) == StartsWith(p, Sep)

Comp(kind, name) == [kind |-> kind, name |-> name]

\* Path::components: repeated separators and "." are skipped, except a "."
\* that opens a relative path; a leading separator is the root
Components(p) ==
    LET pieces == Split(p, Sep)
        body[i \in 0..Len(pieces)] ==
            IF i = 0 THEN <<>>
            ELSE IF pieces[i] = <<>> THEN body[i - 1]
            ELSE IF pieces[i] = <<Dot>>
                 THEN IF i = 1 THEN Append(body[i - 1], Comp("CurDir", <<Dot>>))
                      ELSE body[i - 1]
            ELSE IF pieces[i] = DotDot
                 THEN Append(body[i - 1], Comp("ParentDir", DotDot))
            ELSE Append(body[i - 1], Comp("Normal", pieces[i]))
    IN  (IF IsAbsolute(p) THEN <<Comp("RootDir", <<Sep>>)>> ELSE <<>>)
            \o body[Len(pieces)]

\* Path::file_name: the last component when it is a normal one
FileName(p) ==
    LET cs == Components(p)
    IN  IF cs /= <<>> /\ cs[Len(cs)].kind = "Normal"
        THEN Some(cs[Len(cs)].name)
        ELSE None

\* Path::join (PathBuf::push): an absolute argument replaces the base,
\* otherwise it is appended after a separator the base does not already end in
Join(base, p) ==
    IF IsAbsolute(p) THEN p
    ELSE IF base /= <<>> /\ base[Len(base)] /= Sep THEN base \o <<Sep>> \o p
    ELSE base \o p

\* the order of the characters used in paths (their ASCII order)
AsciiOrder ==
    <<".", "/", "a", "b", "c", "d", "e", "f", "g", "h", "i", "j", "k", "l", "m",
      "n", "o", "p", "q", "r", "s", "t", "u", "v", "w", "x", "y", "z">>

CharCode(c) == CHOOSE i \in 1..Len(AsciiOrder) : AsciiOrder[i] = c

\* OsStr ordering: bytewise lexicographic
RECURSIVE StrLess(_, _)
StrLess(a, b) ==
    IF b = <<>> THEN FALSE
    ELSE IF a = <<>> THEN TRUE
    ELSE IF Head(a) = Head(b) THEN StrLess(Tail(a), Tail(b))
    ELSE CharCode(Head(a)) < CharCode(Head(b))

\* the derived Ord of path::Component: by variant, then by name
KindRank(k) ==
    CASE k = "RootDir" -> 1 [] k = "CurDir" -> 2 [] k = "ParentDir" -> 3 [] k = "Normal" -> 4

CompLess(x, y) ==
    \/ KindRank(x.kind) < KindRank(y.kind)
    \/ x.kind = y.kind /\ StrLess(x.name, y.name)

RECURSIVE CompsLess(_, _)
CompsLess(a, b) ==
    IF b = <<>> THEN FALSE
    ELSE IF a = <<>> THEN TRUE
    ELSE IF Head(a) = Head(b) THEN CompsLess(Tail(a), Tail(b))
    ELSE CompLess(Head(a), Head(b))

\* Ord for Path: the components compared lexicographically
PathLess(p, q) == CompsLess(Components(p), Components(q))

(***************************************************************************)
(* error.rs: Errors (a Vec<StagingError>) and ErrorPartition.              *)
(***************************************************************************)
ErrorsNew == <<>>
ErrorsPush(errors, e) == Append(errors, e)
ErrorsExtend(errors, items) == errors \o items
ErrorsIsEmpty(errors) == errors = <<>>

\* the conversion of one StagingError into Errors that `?` and the
\* `return <StagingError>` of the builders rely on
ErrorsFrom(e) == <<e>>

Ok(value) == [tag |-> "ok", value |-> value, errors |-> <<>>]
Err(errors) == [tag |-> "err", value |-> <<>>, errors |-> errors]
NotCalled == [tag |-> "none", value |-> <<>>, errors |-> <<>>]

\* mutant: the collected errors are dropped and the value is returned
ErrorsOkAlways(errors, value) == Ok(value)

\* mutant: the collected errors are returned even when there are none
ErrorsOkNever(errors, value) == Err(errors)

\* Errors::ok
ErrorsOk(errors, value) == IF ErrorsIsEmpty(errors) THEN Ok(value) ELSE Err(errors)

\* mutant: the partition stops at the first Err item
RECURSIVE ErrorPartitionFailFast(_, _)
ErrorPartitionFailFast(iter, errors) ==
    IF iter = <<>> THEN [items |-> <<>>, errors |-> errors]
    ELSE IF Head(iter).tag = "ok"
         THEN [items |-> <<Head(iter).value>> \o ErrorPartitionFailFast(Tail(iter), errors).items,
               errors |-> ErrorPartitionFailFast(Tail(iter), errors).errors]
         ELSE [items |-> <<>>, errors |-> ErrorsExtend(errors, Head(iter).errors)]

\* ErrorPartition drained by collect(): the Ok payloads in order, every Err
\* item's errors appended to the shared Errors
RECURSIVE ErrorPartition(_, _)
ErrorPartition(iter, errors) ==
    IF iter = <<>> THEN [items |-> <<>>, errors |-> errors]
    ELSE IF Head(iter).tag = "ok"
         THEN LET rest == ErrorPartition(Tail(iter), errors)
              IN  [items |-> <<Head(iter).value>> \o rest.items, errors |-> rest.errors]
         ELSE ErrorPartition(Tail(iter), ErrorsExtend(errors, Head(iter).errors))

(***************************************************************************)
(* action.rs: the actions the builders produce.                            *)
(***************************************************************************)
CopyFile(staged, source) == [op |-> "CopyFile", staged |-> staged, other |-> source]
SymlinkAction(staged, target) == [op |-> "Symlink", staged |-> staged, other |-> target]

(***************************************************************************)
(* builder.rs: the source nodes and their build.  A node is a record       *)
(* [type, path, rename, symlink]; for a Symlink node `path` is its target. *)
(***************************************************************************)
SourceFileNode(path, rename, symlink) ==
    [type |-> "SourceFile", path |-> path, rename |-> rename, symlink |-> symlink]
SymlinkNode(target, rename) ==
    [type |-> "Symlink", path |-> target, rename |-> rename, symlink |-> <<>>]

\* mutant: any rename is accepted
NotBareNameNever(filename) == FALSE

\* the test `filename.file_name() != Some(filename.as_os_str())`
NotBareName(filename) == FileName(filename) /= Some(filename)

\* the symlink check of builder.rs lines 157-160, which is commented out
BuildSymlinkRejected(s) == FALSE

\* lines 154-164: vec![copy] extended by the symlinks
SourceFileActions(copy, links) == <<copy>> \o links

\* impl ActionBuilder for SourceFile
SourceFileBuild(n, dir) ==
    IF ~IsAbsolute(n.path)
    THEN Err(ErrorsFrom(StagingError(HarvestingFailed,
                 <<"SourceFile path must be absolute", n.path>>)))
    ELSE LET filename == IF n.rename.some THEN n.rename.val
                         ELSE IF FileName(n.path).some THEN FileName(n.path).val
                         ELSE <<>>
         IN  IF NotBareName(filename)
             THEN Err(ErrorsFrom(StagingError(HarvestingFailed,
                          <<"SourceFile rename must not change directories", filename>>)))
             ELSE LET copy_target == Join(dir, filename)
                      links == [i \in 1..Len(n.symlink) |->
                                   SymlinkAction(Join(dir, n.symlink[i]), copy_target)]
                  IN  IF \E i \in 1..Len(n.symlink) : BuildSymlinkRejected(n.symlink[i])
                      THEN Err(ErrorsFrom(StagingError(HarvestingFailed,
                                   <<"SourceFile symlink must not change directories", filename>>)))
                      ELSE Ok(SourceFileActions(CopyFile(copy_target, n.path), links))

\* impl ActionBuilder for Symlink
SymlinkBuild(n, dir) ==
    LET filename == IF n.rename.some THEN n.rename.val
                    ELSE IF FileName(n.path).some THEN FileName(n.path).val
                    ELSE <<>>
    IN  IF NotBareName(filename)
        THEN Err(ErrorsFrom(StagingError(HarvestingFailed,
                     <<"Symlink rename must not change directories", filename>>)))
        ELSE Ok(<<SymlinkAction(Join(dir, filename), n.path)>>)

\* the dynamic dispatch of Box<ActionBuilder>::build
NodeBuild(n, dir) ==
    IF n.type = "SourceFile" THEN SourceFileBuild(n, dir)
    ELSE SymlinkBuild(n, dir)

(***************************************************************************)
(* spec.rs: SourceFileBuilder::resolve and SourceFile::stage.  The         *)
(* builder is the same node record as in builder.rs (path, rename,         *)
(* symlink); the resolved SourceFile is a record [source, dest, symlinks]. *)
(***************************************************************************)
\* lines 104-119: the aliases are checked in order and collected into a
\* Result, so the first alias that fails the test is the error returned
RECURSIVE ResolveSymlinks(_, _, _)
ResolveSymlinks(aliases, dir, dest) ==
    IF aliases = <<>> THEN Ok(<<>>)
    ELSE IF NotBareName(Head(aliases))
         THEN Err(ErrorsFrom(StagingError(HarvestingFailed,
                      <<"SourceFile symlink must not change directories", dest>>)))
         ELSE LET rest == ResolveSymlinks(Tail(aliases), dir, dest)
              IN  IF rest.tag = "err" THEN rest
                  ELSE Ok(<<Join(dir, Head(aliases))>> \o rest.value)

\* mutant: a rename is looked at before the source's own file name
SourceFileResolveRenameFirst(n, dir) ==
    IF n.rename.some /\ ~NotBareName(n.rename.val)
    THEN Ok([source |-> n.path, dest |-> Join(dir, n.rename.val), symlinks |-> <<>>])
    ELSE Err(ErrorsFrom(StagingError(HarvestingFailed,
                 <<"SourceFile is missing a filename", n.path>>)))

\* SourceFileBuilder::resolve
SourceFileResolve(n, dir) ==
    LET default_name == FileName(n.path)
    IN  IF ~default_name.some
        THEN Err(ErrorsFrom(StagingError(HarvestingFailed,
                     <<"SourceFile is missing a filename", n.path>>)))
        ELSE LET name == IF n.rename.some THEN n.rename.val ELSE default_name.val
             IN  IF NotBareName(name)
                 THEN Err(ErrorsFrom(StagingError(HarvestingFailed,
                              <<"SourceFile rename must not change directories", name>>)))
                 ELSE LET dest == Join(dir, name)
                          symlinks == ResolveSymlinks(n.symlink, dir, dest)
                      IN  IF symlinks.tag = "err" THEN symlinks
                          ELSE Ok([source |-> n.path, dest |-> dest,
                                   symlinks |-> symlinks.value])

\* staging.rs: the calls made on the Staging target
FileFromPath(dest, src) == [op |-> "file_from_path", path |-> dest, other |-> src]
SymlinkFile(path, target) == [op |-> "symlink_file", path |-> path, other |-> target]

\* mutant: the links are recorded as pointing at the original source
SourceFileStageCallsToSource(s) ==
    <<FileFromPath(s.dest, s.source)>>
        \o [i \in 1..Len(s.symlinks) |-> SymlinkFile(s.symlinks[i], s.source)]

\* SourceFile::stage, lines 150-154: the calls in the order they are made
SourceFileStageCalls(s) ==
    <<FileFromPath(s.dest, s.source)>>
        \o [i \in 1..Len(s.symlinks) |-> SymlinkFile(s.symlinks[i], s.dest)]

\* mutant: the calls after the failing one are made all the same
SourceFileStageContinue(s, failAt) ==
    IF failAt = 0
    THEN [res |-> Ok(<<>>), ops |-> SourceFileStageCalls(s)]
    ELSE [res |-> Err(ErrorsFrom(StagingError(StagingFailed,
                          <<"staging target", SourceFileStageCalls(s)[failAt].path>>))),
          ops |-> SourceFileStageCalls(s)]

\* SourceFile::stage against a target whose failAt-th call fails (0: none
\* fails): each call is followed by `?`, so the failing call is the last one
\* made and its error is returned
SourceFileStage(s, failAt) ==
    LET calls == SourceFileStageCalls(s)
    IN  IF failAt = 0
        THEN [res |-> Ok(<<>>), ops |-> calls]
        ELSE [res |-> Err(ErrorsFrom(StagingError(StagingFailed,
                              <<"staging target", calls[failAt].path>>))),
              ops |-> SubSeq(calls, 1, failAt)]

(***************************************************************************)
(* spec.rs: SymlinkBuilder::resolve and Symlink::stage.  The resolved      *)
(* Symlink is a record [path, target].                                     *)
(***************************************************************************)
\* SymlinkBuilder::resolve: the default filename is taken, with `?`, before
\* the rename is looked at
SymlinkResolve(n, dir) ==
    LET default_filename == FileName(n.path)
    IN  IF ~default_filename.some
        THEN Err(ErrorsFrom(StagingError(HarvestingFailed,
                     <<"Symlink target has no file name", n.path>>)))
        ELSE LET filename == IF n.rename.some THEN n.rename.val
                             ELSE default_filename.val
             IN  IF NotBareName(filename)
                 THEN Err(ErrorsFrom(StagingError(HarvestingFailed,
                              <<"Symlink rename must not change directories", filename>>)))
                 ELSE Ok([path |-> Join(dir, filename), target |-> n.path])

\* mutant: the link is recorded as pointing at its own directory entry
SymlinkStageCallsJoined(s) == <<SymlinkFile(s.path, s.path)>>

\* Symlink::stage, line 372: the one call it makes
SymlinkStageCalls(s) == <<SymlinkFile(s.path, s.target)>>

\* Symlink::stage against a target whose failAt-th call fails (0: none fails)
SymlinkStage(s, failAt) ==
    IF failAt = 0
    THEN [res |-> Ok(<<>>), ops |-> SymlinkStageCalls(s)]
    ELSE [res |-> Err(ErrorsFrom(StagingError(StagingFailed,
                          <<"staging target", s.path>>))),
          ops |-> SymlinkStageCalls(s)]

(***************************************************************************)
(* SourceFiles in spec.rs and builder.rs.  The node is a record [type,     *)
(* path, pattern, follow_links, allow_empty].  The glob walk is the        *)
(* library's: what it yields is the sequence `tree` of entries, each a     *)
(* file or a directory at a path relative to the root, or an error.        *)
(***************************************************************************)
SourceFilesNode(path, pattern, follow_links, allow_empty) ==
    [type |-> "SourceFiles", path |-> path, pattern |-> pattern,
     follow_links |-> follow_links, allow_empty |-> allow_empty]

FileEntry(rel) == [kind |-> "file", rel |-> rel]
DirEntry(rel) == [kind |-> "dir", rel |-> rel]
ErrEntry == [kind |-> "err", rel |-> <<>>]

\* a pattern GlobWalker::from_patterns refuses
BadPattern == <<"[">>

\* GlobWalker::from_patterns returns Ok
PatternsValid(pattern) == \A i \in 1..Len(pattern) : pattern[i] /= BadPattern

\* SourceFilesBuilder::resolve: the parameters are stored, nothing is tested
SourceFilesResolve(n, dir) ==
    Ok([target_dir |-> dir, path |-> n.path, pattern |-> n.pattern,
        follow_links |-> n.follow_links, allow_empty |-> n.allow_empty])

\* the error of a failed walk step of SourceFiles::stage (map_err, lines 251, 254)
WalkFailed(root) ==
    Err(ErrorsFrom(StagingError(HarvestingFailed, <<"walk", root>>)))

\* the error of a failed call on the staging target
CallFailed(path) ==
    Err(ErrorsFrom(StagingError(StagingFailed, <<"staging target", path>>)))

\* mutant: no match is an error whatever allow_empty says
SourceFilesEmptyStrict(s, empty) ==
    IF empty
    THEN Err(ErrorsFrom(StagingError(HarvestingFailed,
                 <<"SourceFiles found no files under", s.path>>)))
    ELSE Ok(<<>>)

\* SourceFiles::stage, lines 267-283: the result once the walk is over
SourceFilesEmpty(s, empty) ==
    IF empty /\ ~s.allow_empty
    THEN Err(ErrorsFrom(StagingError(HarvestingFailed,
                 <<"SourceFiles found no files under", s.path>>)))
    ELSE Ok(<<>>)

\* SourceFiles::stage, lines 253-265: the loop over the entries of the walk;
\* `done` is the calls made so far, the failAt-th call fails (0: none fails)
RECURSIVE SourceFilesStageLoop(_, _, _, _, _)
SourceFilesStageLoop(s, entries, done, empty, failAt) ==
    IF entries = <<>> THEN [res |-> SourceFilesEmpty(s, empty), ops |-> done]
    ELSE IF Head(entries).kind = "err"
         THEN [res |-> WalkFailed(s.path), ops |-> done]
    ELSE IF Head(entries).kind = "dir"
         THEN SourceFilesStageLoop(s, Tail(entries), done, empty, failAt)
    ELSE IF failAt = Len(done) + 1
         THEN [res |-> CallFailed(Join(s.target_dir, Head(entries).rel)),
               ops |-> Append(done, FileFromPath(Join(s.target_dir, Head(entries).rel),
                                                 Join(s.path, Head(entries).rel)))]
    ELSE SourceFilesStageLoop(s, Tail(entries),
             Append(done, FileFromPath(Join(s.target_dir, Head(entries).rel),
                                       Join(s.path, Head(entries).rel))),
             FALSE, failAt)

\* mutant: every entry of the walk is copied, directories and errors included
SourceFilesStageFlat(s, walk, failAt) ==
    [res |-> Ok(<<>>),
     ops |-> [i \in 1..Len(walk) |->
                 FileFromPath(Join(s.target_dir, walk[i].rel), Join(s.path, walk[i].rel))]]

\* impl Specification for SourceFiles
SourceFilesStage(s, walk, failAt) ==
    IF ~PatternsValid(s.pattern)
    THEN [res |-> WalkFailed(s.path), ops |-> <<>>]
    ELSE SourceFilesStageLoop(s, walk, <<>>, TRUE, failAt)

\* the kind of the error `?` makes of a globwalk error in builder.rs (lines
\* 234, 237, 242): the source has no conversion that would name it
GlobErrorKind == "GlobError"

\* SourceFiles::build, lines 234-247: the loop over the entries of the walk
RECURSIVE SourceFilesBuildLoop(_, _, _, _)
SourceFilesBuildLoop(n, dir, entries, actions) ==
    IF entries = <<>>
    THEN IF actions = <<>> /\ ~n.allow_empty
         THEN Err(ErrorsFrom(StagingError(HarvestingFailed,
                      <<"No files found under", n.path>>)))
         ELSE Ok(actions)
    ELSE IF Head(entries).kind = "err"
         THEN Err(ErrorsFrom(StagingError(GlobErrorKind, <<"walk", n.path>>)))
    ELSE IF Head(entries).kind = "dir"
         THEN SourceFilesBuildLoop(n, dir, Tail(entries), actions)
    ELSE SourceFilesBuildLoop(n, dir, Tail(entries),
             Append(actions, CopyFile(Join(dir, Head(entries).rel),
                                      Join(n.path, Head(entries).rel))))

\* impl ActionBuilder for SourceFiles
SourceFilesBuild(n, dir, walk) ==
    IF ~IsAbsolute(n.path)
    THEN Err(ErrorsFrom(StagingError(HarvestingFailed,
                 <<"SourceFiles path must be absolute", n.path>>)))
    ELSE IF ~PatternsValid(n.pattern)
    THEN Err(ErrorsFrom(StagingError(GlobErrorKind, <<"walk", n.path>>)))
    ELSE SourceFilesBuildLoop(n, dir, walk, <<>>)

(***************************************************************************)
(* The dynamic dispatch of Box<SpecificationBuilder>, Box<Specification>   *)
(* and Box<ActionBuilder> over the three kinds of node.                    *)
(***************************************************************************)
NodeResolve(n, dir) ==
    IF n.type = "SourceFile" THEN SourceFileResolve(n, dir)
    ELSE IF n.type = "Symlink" THEN SymlinkResolve(n, dir)
    ELSE SourceFilesResolve(n, dir)

SpecStage(type, s, walk, failAt) ==
    IF type = "SourceFile" THEN SourceFileStage(s, failAt)
    ELSE IF type = "Symlink" THEN SymlinkStage(s, failAt)
    ELSE SourceFilesStage(s, walk, failAt)

\* the most calls stage can make on the staging target
SpecStageCalls(type, s, walk) ==
    IF type = "SourceFile" THEN 1 + Len(s.symlinks)
    ELSE IF type = "Symlink" THEN 1
    ELSE Len(SelectSeq(walk, LAMBDA e : e.kind = "file"))

AnyNodeBuild(n, dir, walk) ==
    IF n.type = "SourceFiles" THEN SourceFilesBuild(n, dir, walk)
    ELSE NodeBuild(n, dir)

(***************************************************************************)
(* builder.rs: Stage, a BTreeMap from target directory to its sources,     *)
(* modelled as a function from paths to sequences of nodes.                *)
(***************************************************************************)
\* the least key of a non-empty set of paths
MinKey(keys) == CHOOSE k \in keys : \A j \in keys \ {k} : PathLess(k, j)

\* mutant: the map is walked from its greatest key down
RECURSIVE BTreeKeysDescending(_)
BTreeKeysDescending(keys) ==
    IF keys = {} THEN <<>>
    ELSE Append(BTreeKeysDescending(keys \ {MinKey(keys)}), MinKey(keys))

\* BTreeMap::iter: the keys in ascending order
RECURSIVE BTreeKeys(_)
BTreeKeys(keys) ==
    IF keys = {} THEN <<>>
    ELSE <<MinKey(keys)>> \o BTreeKeys(keys \ {MinKey(keys)})

\* Iterator::flat_map(|v| v.into_iter()) over a sequence of sequences
RECURSIVE Flatten(_)
Flatten(ss) == IF ss = <<>> THEN <<>> ELSE Head(ss) \o Flatten(Tail(ss))

\* the kind of the error of lines 55-61 for a target that is absolute
AbsoluteTargetKind == HarvestingFailed

\* the closure of lines 53-72 for one (target, sources) entry.  `visited`
\* records the nodes whose build was called, as <<target, index>>.  Each
\* node's Result is one item of the iterator handed to ErrorPartition
\* (ErrorPartition takes an Iterator<Item = Result<T, Errors>>, and line 77
\* takes each collected item to be one node's Vec of actions).
StageBuildTarget(dir, target, sources) ==
    IF IsAbsolute(target)
    THEN [res |-> Err(ErrorsPush(ErrorsNew,
                        StagingError(AbsoluteTargetKind,
                            <<"target must be relative to the stage root", target>>))),
          visited |-> <<>>]
    ELSE LET joined == Join(dir, target)
             results == [i \in 1..Len(sources) |-> NodeBuild(sources[i], joined)]
             part == ErrorPartition(results, ErrorsNew)
         IN  [res |-> ErrorsOk(part.errors, part.items),
              visited |-> [i \in 1..Len(sources) |-> <<target, i>>]]

\* collect() into Result<Vec<_>, Errors> (line 73): the entries are taken in
\* key order and the first Err ends the iteration and is the result
RECURSIVE StageCollect(_, _, _, _, _)
StageCollect(st, dir, keys, acc, seen) ==
    IF keys = <<>> THEN [res |-> Ok(acc), visited |-> seen]
    ELSE LET r == StageBuildTarget(dir, Head(keys), st[Head(keys)])
         IN  IF r.res.tag = "err"
             THEN [res |-> r.res, visited |-> seen \o r.visited]
             ELSE StageCollect(st, dir, Tail(keys),
                               Append(acc, r.res.value), seen \o r.visited)

\* lines 73-80: `?` returns the Err of the collect; otherwise the per-target
\* and per-node vectors are flattened into one Vec of actions
StageFlatten(staging) ==
    IF staging.res.tag = "err"
    THEN [res |-> staging.res, visited |-> staging.visited]
    ELSE [res |-> Ok(Flatten(Flatten(staging.res.value))),
          visited |-> staging.visited]

\* impl ActionBuilder for Stage
StageBuild(st, dir) ==
    StageFlatten(StageCollect(st, dir, BTreeKeys(DOMAIN st), <<>>, <<>>))

(***************************************************************************)
(* The primitives of std::fs the crate calls.  A call is a record [prim,   *)
(* at, from]: `at` is the path the primitive creates or writes, `from` the *)
(* path it copies from or, for a symbolic link, the path the link points   *)
(* to.                                                                     *)
(***************************************************************************)
OsCreateDirAll(path) == [prim |-> "create_dir_all", at |-> path, from |-> <<>>]

\* fs::copy(from, to)
OsCopy(from, to) == [prim |-> "copy", at |-> to, from |-> from]

\* fs::File::create(path) and io::copy(src, &mut f) into the created file
OsCreate(path) == [prim |-> "create", at |-> path, from |-> <<>>]
OsWrite(path) == [prim |-> "write", at |-> path, from |-> <<>>]

\* std::os::unix::fs::symlink(original, link), std::os::windows::fs::symlink_file
\* and symlink_dir(original, link), fs::soft_link(original, link): the second
\* argument becomes a link pointing to the first
OsSymlink(original, link) == [prim |-> "symlink", at |-> link, from |-> original]

\* a sequence of primitives each followed by `?`, the failAt-th of which
\* fails (0: none fails): the failing one is the last one called
Attempt(calls, failAt) ==
    IF failAt = 0
    THEN [res |-> Ok(<<>>), os |-> calls]
    ELSE [res |-> Err(ErrorsFrom(StagingError(StagingFailed,
                          <<"io", calls[failAt].at>>))),
          os |-> SubSeq(calls, 1, failAt)]

\* the path of a sequence of components
RECURSIVE PathOfComponents(_)
PathOfComponents(cs) ==
    IF cs = <<>> THEN <<>>
    ELSE IF Len(cs) = 1 THEN cs[1].name
    ELSE IF cs[1].kind = "RootDir" THEN <<Sep>> \o PathOfComponents(Tail(cs))
    ELSE cs[1].name \o <<Sep>> \o PathOfComponents(Tail(cs))

\* Path::parent: the path without its last component; None for the root and
\* for the empty path
Parent(p) ==
    IF Components(p) = <<>> \/ Components(p)[Len(Components(p))].kind = "RootDir"
    THEN None
    ELSE Some(PathOfComponents(SubSeq(Components(p), 1, Len(Components(p)) - 1)))

(***************************************************************************)
(* fs.rs: impl Staging for Filesystem, as the primitives each method       *)
(* calls.  symlink_file and symlink_dir are compiled per target_os.        *)
(***************************************************************************)
FsDirectory(root, path) == <<OsCreateDirAll(Join(root, path))>>

FsFileFromPath(root, dest, src) == <<OsCopy(src, Join(root, dest))>>

FsFileFromReader(root, dest) == <<OsCreate(Join(root, dest)), OsWrite(Join(root, dest))>>

FsSymlinkDir(root, os, path, target) == <<OsSymlink(target, Join(root, path))>>

FsSymlinkFile(root, os, path, target) ==
    IF os = "windows"
    THEN <<OsSymlink(target, Join(root, path))>>
    ELSE <<OsSymlink(target, path)>>

\* the dispatch of a call on the Staging trait object
FsCalls(root, os, op, path, other) ==
    CASE op = "directory" -> FsDirectory(root, path)
      [] op = "file_from_path" -> FsFileFromPath(root, path, other)
      [] op = "file_from_reader" -> FsFileFromReader(root, path)
      [] op = "symlink_dir" -> FsSymlinkDir(root, os, path, other)
      [] op = "symlink_file" -> FsSymlinkFile(root, os, path, other)

(***************************************************************************)
(* action.rs: perform and Display of the three actions.                    *)
(***************************************************************************)
\* the create_dir_all of the parent that CopyFile and Symlink start with
ParentDirs(staged) ==
    IF Parent(staged).some THEN <<OsCreateDirAll(Parent(staged).val)>> ELSE <<>>

CreateDirectoryPerform(staged) == <<OsCreateDirAll(staged)>>

CopyFilePerform(staged, source) == ParentDirs(staged) \o <<OsCopy(source, staged)>>

\* line 156: fs::soft_link(&self.staged, &self.target)
SymlinkPerform(staged, target) == ParentDirs(staged) \o <<OsSymlink(staged, target)>>

\* impl fmt::Display for Symlink: the words of "ln -s {target} {staged}"
SymlinkDisplay(staged, target) == <<"ln", "-s", target, staged>>

\* the dispatch of perform over the actions
PerformCalls(op, staged, other) ==
    CASE op = "CreateDirectory" -> CreateDirectoryPerform(staged)
      [] op = "CopyFile" -> CopyFilePerform(staged, other)
      [] op = "Symlink" -> SymlinkPerform(staged, other)

(***************************************************************************)
(* The paths, names and nodes the stage maps are drawn from.               *)
(***************************************************************************)
StageRoots == {<<"/", "t">>}

KeyA == <<"a">>
KeyB == <<"b">>
KeyAbs == <<"/", "a">>
KeyUp == <<".", ".", "/", "x">>
TargetKeys == {KeyA, KeyB, KeyAbs, KeyUp}

SrcFile == <<"/", "s", "/", "f">>
LinkTo == <<"/", "o", "/", "p">>

NodePlain == SourceFileNode(SrcFile, None, <<>>)
NodeLinks == SourceFileNode(SrcFile, Some(<<"r">>), <<<<"l">>, <<"m">>>>)
NodeBadRename == SourceFileNode(SrcFile, Some(<<"d", "/", "e">>), <<>>)
NodeUpLink == SourceFileNode(SrcFile, None, <<<<".", ".", "/", ".", ".", "/", "l">>>>)
NodeSymlink == SymlinkNode(LinkTo, None)

StageNodes == {NodePlain, NodeLinks, NodeBadRename, NodeUpLink, NodeSymlink}

\* the number of nodes of a stage map
RECURSIVE CountNodes(_, _)
CountNodes(st, keys) ==
    IF keys = {} THEN 0
    ELSE LET k == CHOOSE k \in keys : TRUE
         IN  Len(st[k]) + CountNodes(st, keys \ {k})

TotalNodes(st) == CountNodes(st, DOMAIN st)

EmptyStage == [k \in {} |-> <<>>]

\* the SourceFile nodes of the single-node specification
SubEvil == <<"s", "u", "b", "/", "e", "v", "i", "l">>
NameAlphabet == {Sep, Dot, "r"}
SourcePaths == {SrcFile, <<"s", "/", "f">>, <<"/">>}
RenameInputs ==
    {None} \cup {Some(s) : s \in UNION {[1..k -> NameAlphabet] : k \in 0..MaxNameLen}}
           \cup {Some(SubEvil)}
AliasNames == {<<"l">>, <<".", ".", "/", "l">>, <<"d", "/", "l">>}
AliasInputs == UNION {[1..k -> AliasNames] : k \in 0..MaxLinks}
SourceFileInputs ==
    {SourceFileNode(p, r, l) : p \in SourcePaths, r \in RenameInputs, l \in AliasInputs}

\* the Symlink nodes of the single-node specification
OptApp == <<"/", "o", "p", "t", "/", "a", "p", "p">>
SymlinkTargets == {OptApp, <<"/">>, <<"o", "/", "p", "/">>, <<"p", "/", ".", ".">>}
SymlinkInputs == {SymlinkNode(t, r) : t \in SymlinkTargets, r \in RenameInputs}

\* the SourceFiles nodes of the single-node specification, and the source
\* trees their glob walk can meet
SourceRoots == {<<"/", "s">>, <<"s">>}
PatternInputs == {<<<<"*">>>>, <<BadPattern>>}
SourceFilesInputs ==
    {SourceFilesNode(p, pat, FALSE, e) :
        p \in SourceRoots, pat \in PatternInputs, e \in BOOLEAN}
TreeEntries == {FileEntry(<<"a">>), FileEntry(<<"d", "/", "b">>), DirEntry(<<"d">>), ErrEntry}
Trees == UNION {[1..k -> TreeEntries] : k \in 0..MaxEntries}

(***************************************************************************)
(* Specification of abs_to_rel: any argument, then the call.               *)
(***************************************************************************)
\* the variables of the other specifications, at rest
IdleBuild ==
    /\ stage = EmptyStage
    /\ target_dir = <<>>
    /\ built = NotCalled
    /\ visited = <<>>

IdlePath ==
    /\ abs = <<>>
    /\ a2r = NoResult

IdleNode ==
    /\ node = NodePlain
    /\ resolved = NotCalled
    /\ nbuilt = NotCalled
    /\ ops = <<>>
    /\ stage_result = NotCalled
    /\ tree = <<>>
    /\ reads = <<>>

IdleFs ==
    /\ fs_root = <<>>
    /\ target_os = "unix"
    /\ fs_log = <<>>

InitPath ==
    /\ abs \in StringsUpTo(MaxLen) \cup TestInputs
    /\ a2r = NoResult
    /\ IdleBuild
    /\ IdleNode
    /\ IdleFs

CallAbsToRel ==
    /\ a2r.tag = "none"
    /\ a2r' = AbsToRel(abs)
    /\ UNCHANGED <<abs, buildVars, nodeVars, fsVars>>

NextPath == CallAbsToRel

SpecPath == InitPath /\ [][NextPath]_vars

(***************************************************************************)
(* Specification of Stage::build: a stage map is collected entry by entry  *)
(* (FromIterator, lines 83-91), then built against a stage root.           *)
(***************************************************************************)
InitBuild ==
    /\ stage = EmptyStage
    /\ target_dir \in StageRoots
    /\ built = NotCalled
    /\ visited = <<>>
    /\ IdlePath
    /\ IdleNode
    /\ IdleFs

\* one (target, sources) item of the iterator collected into the map
StageInsert ==
    /\ built.tag = "none"
    /\ \E key \in TargetKeys \ DOMAIN stage :
       \E n \in 0..(MaxTotalNodes - TotalNodes(stage)) :
       \E sources \in [1..n -> StageNodes] :
           stage' = [k \in DOMAIN stage \cup {key} |->
                        IF k = key THEN sources ELSE stage[k]]
    /\ UNCHANGED <<target_dir, built, visited, pathVars, nodeVars, fsVars>>

CallStageBuild ==
    /\ built.tag = "none"
    /\ built' = StageBuild(stage, target_dir).res
    /\ visited' = StageBuild(stage, target_dir).visited
    /\ UNCHANGED <<stage, target_dir, pathVars, nodeVars, fsVars>>

NextBuild == StageInsert \/ CallStageBuild

SpecBuild == InitBuild /\ [][NextBuild]_vars

(***************************************************************************)
(* Specification of one SourceFile node: it is resolved (spec.rs) and      *)
(* built (builder.rs) against the stage root, and the resolved             *)
(* specification is staged against a target any of whose calls may fail.   *)
(***************************************************************************)
InitNode ==
    /\ \/ node \in SourceFileInputs \cup SymlinkInputs /\ tree = <<>>
       \/ node \in SourceFilesInputs /\ tree \in Trees
    /\ target_dir \in StageRoots
    /\ resolved = NotCalled
    /\ nbuilt = NotCalled
    /\ ops = <<>>
    /\ stage_result = NotCalled
    /\ reads = <<>>
    /\ stage = EmptyStage
    /\ built = NotCalled
    /\ visited = <<>>
    /\ IdlePath
    /\ IdleFs

\* one glob walk over the source tree, by the call that ran it
Walk(by, root, saw) == [by |-> by, root |-> root, saw |-> saw]

\* SpecificationBuilder::resolve: it is handed the node and target_dir only
CallResolve ==
    /\ resolved.tag = "none"
    /\ resolved' = NodeResolve(node, target_dir)
    /\ UNCHANGED <<node, nbuilt, ops, stage_result, tree, reads, buildVars, pathVars, fsVars>>

\* ActionBuilder::build; SourceFiles::build walks the source tree once its
\* path and patterns are accepted (builder.rs lines 229-236)
CallBuild ==
    /\ nbuilt.tag = "none"
    /\ nbuilt' = AnyNodeBuild(node, target_dir, tree)
    /\ reads' = IF node.type = "SourceFiles" /\ IsAbsolute(node.path)
                       /\ PatternsValid(node.pattern)
                THEN Append(reads, Walk("build", node.path, tree))
                ELSE reads
    /\ UNCHANGED <<node, resolved, ops, stage_result, tree, buildVars, pathVars, fsVars>>

\* Specification::stage against a staging target any of whose calls may
\* fail; SourceFiles::stage walks the source tree once its patterns are
\* accepted (spec.rs lines 250-253)
CallStage ==
    /\ resolved.tag = "ok"
    /\ stage_result.tag = "none"
    /\ \E failAt \in 0..SpecStageCalls(node.type, resolved.value, tree) :
           /\ stage_result' = SpecStage(node.type, resolved.value, tree, failAt).res
           /\ ops' = ops \o SpecStage(node.type, resolved.value, tree, failAt).ops
    /\ reads' = IF node.type = "SourceFiles" /\ PatternsValid(resolved.value.pattern)
                THEN Append(reads, Walk("stage", resolved.value.path, tree))
                ELSE reads
    /\ UNCHANGED <<node, resolved, nbuilt, tree, buildVars, pathVars, fsVars>>

\* the walks stage has run
StageWalks == SelectSeq(reads, LAMBDA w : w.by = "stage")

\* mutant: the retried specification was used up by its first run, so that
\* nothing is left to walk
RetryStageConsumed ==
    /\ node.type = "SourceFiles"
    /\ stage_result.tag /= "none"
    /\ Len(StageWalks) = 1
    /\ stage_result' = Ok(<<>>)
    /\ reads' = Append(reads, Walk("stage", resolved.value.path, <<>>))
    /\ UNCHANGED <<node, resolved, nbuilt, ops, tree, buildVars, pathVars, fsVars>>

\* Specification::stage takes &self: the caller calls stage a second time on
\* the same SourceFiles specification, against the same staging target
RetryStage ==
    /\ node.type = "SourceFiles"
    /\ stage_result.tag /= "none"
    /\ Len(StageWalks) = 1
    /\ \E failAt \in 0..SpecStageCalls(node.type, resolved.value, tree) :
           /\ stage_result' = SpecStage(node.type, resolved.value, tree, failAt).res
           /\ ops' = ops \o SpecStage(node.type, resolved.value, tree, failAt).ops
    /\ reads' = Append(reads, Walk("stage", resolved.value.path, tree))
    /\ UNCHANGED <<node, resolved, nbuilt, tree, buildVars, pathVars, fsVars>>

\* the source tree changes under a SourceFiles node that is yet to be staged
TouchTree ==
    /\ node.type = "SourceFiles"
    /\ stage_result.tag = "none"
    /\ \E t \in Trees \ {tree} : tree' = t
    /\ UNCHANGED <<node, resolved, nbuilt, ops, stage_result, reads, buildVars, pathVars, fsVars>>

NextNode == CallResolve \/ CallBuild \/ CallStage \/ RetryStage \/ TouchTree

SpecNode == InitNode /\ [][NextNode]_vars

(***************************************************************************)
(* Specification of the filesystem side: a Filesystem staging target with  *)
(* a root receives calls of the Staging trait, and actions are performed;  *)
(* any primitive may fail.                                                 *)
(***************************************************************************)
Platforms == {"unix", "windows"}
StagePaths == {<<"a">>, <<"d", "/", "b">>}
LinkTargets == {LinkTo, <<"x">>}
StagedPaths == {<<"/", "t", "/", "a">>, <<"/", "t", "/", "d", "/", "b">>}

\* one entry of fs_log: the call, its result, the primitives it called
FsEntry(op, path, other, done) ==
    [op |-> op, path |-> path, other |-> other, res |-> done.res, os |-> done.os]

InitFs ==
    /\ fs_root \in StageRoots
    /\ target_os \in Platforms
    /\ fs_log = <<>>
    /\ target_dir = <<>>
    /\ stage = EmptyStage
    /\ built = NotCalled
    /\ visited = <<>>
    /\ IdlePath
    /\ IdleNode

\* a call of op(path, other) on the Filesystem
FsCall(op, path, other) ==
    /\ Len(fs_log) < MaxOps
    /\ \E failAt \in 0..Len(FsCalls(fs_root, target_os, op, path, other)) :
           fs_log' = Append(fs_log, FsEntry(op, path, other,
                         Attempt(FsCalls(fs_root, target_os, op, path, other), failAt)))
    /\ UNCHANGED <<fs_root, target_os, pathVars, buildVars, nodeVars>>

CallDirectory == \E path \in StagePaths : FsCall("directory", path, <<>>)

CallFileFromPath == \E dest \in StagePaths : FsCall("file_from_path", dest, SrcFile)

CallFileFromReader == \E dest \in StagePaths : FsCall("file_from_reader", dest, <<>>)

CallSymlinkDir ==
    \E path \in StagePaths : \E target \in LinkTargets : FsCall("symlink_dir", path, target)

CallSymlinkFile ==
    \E path \in StagePaths : \E target \in LinkTargets : FsCall("symlink_file", path, target)

\* perform of the action op{staged, other}
Perform(op, staged, other) ==
    /\ Len(fs_log) < MaxOps
    /\ \E failAt \in 0..Len(PerformCalls(op, staged, other)) :
           fs_log' = Append(fs_log, FsEntry(op, staged, other,
                         Attempt(PerformCalls(op, staged, other), failAt)))
    /\ UNCHANGED <<fs_root, target_os, pathVars, buildVars, nodeVars>>

PerformCreateDirectory == \E staged \in StagedPaths : Perform("CreateDirectory", staged, <<>>)

PerformCopyFile == \E staged \in StagedPaths : Perform("CopyFile", staged, SrcFile)

PerformSymlink ==
    \E staged \in StagedPaths : \E target \in LinkTargets : Perform("Symlink", staged, target)

NextFs ==
    \/ CallDirectory
    \/ CallFileFromPath
    \/ CallFileFromReader
    \/ CallSymlinkDir
    \/ CallSymlinkFile
    \/ PerformCreateDirectory
    \/ PerformCopyFile
    \/ PerformSymlink

SpecFs == InitFs /\ [][NextFs]_vars

(***************************************************************************)
(* Claims about abs_to_rel (checked under SpecPath).                       *)
(***************************************************************************)
\* the '/'-separated components of s, empty and "." ones dropped
RefParts(s) == SelectSeq(Split(s, Sep), LAMBDA p : p /= <<>> /\ p /= <<Dot>>)

\* some ".." is met while no retained component is left: in some prefix of
\* the components the ".." outnumber the others
Escapes(parts) ==
    \E k \in 1..Len(parts) :
        Cardinality({i \in 1..k : parts[i] = DotDot})
            > Cardinality({i \in 1..k : parts[i] /= DotDot})

\* a component that is a plain name: not empty, not ".", not "..", no separator
PlainComponent(c) ==
    /\ c \notin {<<>>, <<Dot>>, DotDot}
    /\ \A i \in 1..Len(c) : c[i] /= Sep

\* C1: for an argument starting with '/', abs_to_rel returns either a
\* relative path of plain components (no "..", no root), or an
\* InvalidConfiguration error, and the error exactly when some ".." is met
\* with no retained component left to pop.
C1_NormalizeContained ==
    (a2r.tag /= "none" /\ StartsWith(abs, Sep)) =>
        /\ a2r.tag \in {"ok", "err"}
        /\ (a2r.tag = "err") <=> Escapes(RefParts(abs))
        /\ a2r.tag = "err" => a2r.kind = InvalidConfiguration
        /\ a2r.tag = "ok" => \A i \in 1..Len(a2r.path) : PlainComponent(a2r.path[i])

\* an argument that first retains a component and then climbs above the root
C1_Witness ==
    /\ a2r.tag = "err"
    /\ StartsWith(abs, Sep)
    /\ Len(RefParts(abs)) >= 3
    /\ RefParts(abs)[1] /= DotDot

\* C2: an argument that does not start with '/' is always refused with
\* InvalidConfiguration, never answered with a path.
C2_RelativeRefused ==
    (a2r.tag /= "none" /\ ~StartsWith(abs, Sep)) =>
        /\ a2r.tag = "err"
        /\ a2r.kind = InvalidConfiguration

C2_Witness == abs = TestRel2 /\ a2r.tag = "err"

\* the reference stack algorithm over the retained components, as the stack
\* after each component
RefStack(parts) ==
    LET st[i \in 0..Len(parts)] ==
            IF i = 0 THEN <<>>
            ELSE IF parts[i] = DotDot
                 THEN SubSeq(st[i - 1], 1, Len(st[i - 1]) - 1)
                 ELSE Append(st[i - 1], parts[i])
    IN  st[Len(parts)]

\* s with the string x inserted after its first i characters
InsertAt(s, i, x) == SubSeq(s, 1, i) \o x \o SubSeq(s, i + 1, Len(s))

\* a place between two components: next to a separator, or at either end
AtBoundary(s, i) ==
    \/ i = 0
    \/ i = Len(s)
    \/ s[i] = Sep
    \/ s[i + 1] = Sep

\* PathBuf::from(s) for a plain relative string s, as its components
PathFrom(s) == Split(s, Sep)

\* C3: for an argument starting with '/' whose ".." never escape, the result
\* is the reference stack of its components; an extra '/' or '/./' at any
\* component boundary changes nothing; and the results of the unit tests.
C3_NormalizeReference ==
    (a2r.tag /= "none" /\ StartsWith(abs, Sep) /\ ~Escapes(RefParts(abs))) =>
        /\ a2r = OkPath(RefStack(RefParts(abs)))
        /\ \A i \in 0..Len(abs) :
               AtBoundary(abs, i) =>
                   /\ AbsToRel(InsertAt(abs, i, <<Sep>>)) = a2r
                   /\ AbsToRel(InsertAt(abs, i, <<Sep, Dot, Sep>>)) = a2r
        /\ abs \in {TestPlain, TestNop1, TestNop2} => a2r.path = PathFrom(Hello \o S \o World)
        /\ abs = TestUpRoot => a2r.path = PathFrom(Goodbye \o S \o World)
        /\ abs = TestUps => a2r.path = PathFrom(Foo \o S \o Bar)
        /\ abs = TestLeaf => a2r.path = PathFrom(Hello \o S \o World)

C3_Witness == abs = TestUps /\ a2r.tag = "ok"

(***************************************************************************)
(* Claims about Stage::build (checked under SpecBuild).                    *)
(***************************************************************************)
\* the components of a path with "." dropped and each ".." taken against
\* the component before it; a ".." at the root stays at the root, a ".."
\* with nothing before it is kept
RECURSIVE LexNormalize(_, _)
LexNormalize(cs, acc) ==
    IF cs = <<>> THEN acc
    ELSE IF Head(cs).kind = "CurDir" THEN LexNormalize(Tail(cs), acc)
    ELSE IF Head(cs).kind = "ParentDir"
         THEN IF acc /= <<>> /\ acc[Len(acc)].kind = "Normal"
              THEN LexNormalize(Tail(cs), SubSeq(acc, 1, Len(acc) - 1))
              ELSE IF acc /= <<>> /\ acc[Len(acc)].kind = "RootDir"
                   THEN LexNormalize(Tail(cs), acc)
                   ELSE LexNormalize(Tail(cs), Append(acc, Head(cs)))
    ELSE LexNormalize(Tail(cs), Append(acc, Head(cs)))

\* path lies at or below root once both are normalised
Within(path, root) ==
    LET n == LexNormalize(Components(path), <<>>)
        r == LexNormalize(Components(root), <<>>)
    IN  Len(n) >= Len(r) /\ SubSeq(n, 1, Len(r)) = r

\* C4: when Stage::build succeeds, every copy destination and every symlink
\* path lies within the stage root; a target key that climbs above the root
\* never builds successfully.
C4_ResolvedWithinRoot ==
    built.tag = "ok" =>
        /\ \A i \in 1..Len(built.value) : Within(built.value[i].staged, target_dir)
        /\ \A k \in DOMAIN stage : Within(Join(target_dir, k), target_dir)

\* whether the build of node i of target k fails
NodeFails(k, i) == NodeBuild(stage[k][i], Join(target_dir, k)).tag = "err"

FailingNodes == {<<k, i>> \in TargetKeys \X (1..MaxTotalNodes) :
                    k \in DOMAIN stage /\ i <= Len(stage[k]) /\ ~IsAbsolute(k) /\ NodeFails(k, i)}

RejectedTargets == {k \in DOMAIN stage : IsAbsolute(k)}

\* C5: Stage::build is not fail-fast: every node of every accepted target is
\* built, and a failing call reports the errors of every failing node and of
\* every rejected target, across all target directories.
C5_AllTargetsResolved ==
    built.tag /= "none" =>
        /\ \A k \in DOMAIN stage : ~IsAbsolute(k) =>
               \A i \in 1..Len(stage[k]) : \E j \in 1..Len(visited) : visited[j] = <<k, i>>
        /\ built.tag = "err" =>
               Len(built.errors) = Cardinality(FailingNodes) + Cardinality(RejectedTargets)

\* the stage map reduced to the one target k
OnlyTarget(k) == [j \in {k} |-> stage[k]]

\* C6: Stage::build returns Ok exactly when no target is rejected and no node
\* fails; two targets, one holding one node that builds and the other one
\* node that fails, give Err with exactly one error, while the valid target
\* alone builds.
C6_OkIffNothingFails ==
    built.tag /= "none" =>
        /\ (built.tag = "ok") <=> (RejectedTargets = {} /\ FailingNodes = {})
        /\ \A good, bad \in DOMAIN stage :
               ( /\ DOMAIN stage = {good, bad}
                 /\ good /= bad
                 /\ ~IsAbsolute(good) /\ ~IsAbsolute(bad)
                 /\ Len(stage[good]) = 1 /\ ~NodeFails(good, 1)
                 /\ Len(stage[bad]) = 1 /\ NodeFails(bad, 1) ) =>
                   /\ built.tag = "err"
                   /\ Len(built.errors) = 1
                   /\ StageBuild(OnlyTarget(good), target_dir).res.tag = "ok"

\* the valid target comes first in key order, the failing one second
C6_Witness ==
    /\ built.tag = "err"
    /\ DOMAIN stage = {KeyA, KeyB}
    /\ stage[KeyA] = <<NodePlain>>
    /\ stage[KeyB] = <<NodeBadRename>>

\* the r-th target directory in key order
KeyAt(r) ==
    CHOOSE k \in DOMAIN stage : Cardinality({j \in DOMAIN stage : PathLess(j, k)}) = r - 1

\* the items of the first i nodes of target k, in declaration order
ItemsOfTarget(k) ==
    LET f[i \in 0..Len(stage[k])] ==
            IF i = 0 THEN <<>>
            ELSE f[i - 1] \o NodeBuild(stage[k][i], Join(target_dir, k)).value
    IN  f[Len(stage[k])]

\* the items of the first r targets, in key order
ItemsInOrder ==
    LET g[r \in 0..Cardinality(DOMAIN stage)] ==
            IF r = 0 THEN <<>> ELSE g[r - 1] \o ItemsOfTarget(KeyAt(r))
    IN  g[Cardinality(DOMAIN stage)]

\* a SourceFile's items: its copy, then one symlink per alias in alias order
CopyThenLinks(n, items, dir) ==
    /\ Len(items) = 1 + Len(n.symlink)
    /\ items[1].op = "CopyFile"
    /\ \A j \in 1..Len(n.symlink) :
           /\ items[j + 1].op = "Symlink"
           /\ items[j + 1].staged = Join(dir, n.symlink[j])

\* C7: on success the returned list is the concatenation of every node's
\* items by target key order, then node declaration order, then the node's
\* own order (a SourceFile's copy before its symlinks).
C7_ItemsInOrder ==
    built.tag = "ok" =>
        /\ built.value = ItemsInOrder
        /\ \A k \in DOMAIN stage : \A i \in 1..Len(stage[k]) :
               stage[k][i].type = "SourceFile" =>
                   CopyThenLinks(stage[k][i],
                                 NodeBuild(stage[k][i], Join(target_dir, k)).value,
                                 Join(target_dir, k))

C7_Witness ==
    /\ built.tag = "ok"
    /\ Cardinality(DOMAIN stage) >= 2
    /\ \E k \in DOMAIN stage :
           /\ Len(stage[k]) >= 2
           /\ \E i \in 1..Len(stage[k]) : Len(stage[k][i].symlink) >= 2
    /\ \A k \in DOMAIN stage : stage[k] /= <<>>

\* C8: an absolute target key is rejected with one InvalidConfiguration
\* error for that target and none of its nodes is built.
C8_AbsoluteTargetRejected ==
    (built.tag /= "none" /\ RejectedTargets /= {}) =>
        /\ built.tag = "err"
        /\ \A k \in RejectedTargets :
               /\ Cardinality({j \in 1..Len(built.errors) : built.errors[j].context[2] = k}) = 1
               /\ \A j \in 1..Len(built.errors) :
                      built.errors[j].context[2] = k =>
                          built.errors[j].kind = InvalidConfiguration
               /\ \A j \in 1..Len(visited) : visited[j][1] /= k

(***************************************************************************)
(* Claims about one SourceFile node (checked under SpecNode).              *)
(***************************************************************************)
\* a name that is not a single path component: empty, "..", or holding a
\* separator
NotSingleComponent(s) ==
    \/ s = <<>>
    \/ s = DotDot
    \/ \E i \in 1..Len(s) : s[i] = Sep

\* a Result that is an error made of HarvestingFailed errors only
FailsHarvesting(r) ==
    /\ r.tag = "err"
    /\ r.errors /= <<>>
    /\ \A j \in 1..Len(r.errors) : r.errors[j].kind = HarvestingFailed

\* C9: a SourceFile whose rename is not a single path component fails with
\* HarvestingFailed in SourceFileBuilder::resolve and in SourceFile::build;
\* no copy action is produced and no staging call is ever made for it.
C9_BadRenameFails ==
    (node.type = "SourceFile" /\ node.rename.some
        /\ NotSingleComponent(node.rename.val)) =>
        /\ resolved.tag /= "none" => FailsHarvesting(resolved)
        /\ nbuilt.tag /= "none" => FailsHarvesting(nbuilt) /\ nbuilt.value = <<>>
        /\ ops = <<>>
        /\ stage_result.tag = "none"

C9_Witness ==
    /\ node.type = "SourceFile"
    /\ node.rename = Some(SubEvil)
    /\ IsAbsolute(node.path)
    /\ FileName(node.path).some
    /\ resolved.tag = "err"
    /\ nbuilt.tag = "err"

\* path is a direct child of dir: dir joined with one plain name
DirectChild(path, dir) ==
    LET d == Components(dir)
        c == Components(path)
    IN  /\ Len(c) = Len(d) + 1
        /\ SubSeq(c, 1, Len(d)) = d
        /\ c[Len(c)].kind = "Normal"

\* C10: a SourceFile with an alias that is not a single path component fails
\* with HarvestingFailed in resolve and in build, so every symlink produced
\* for a SourceFile is a direct child of the target directory.
C10_BadAliasFails ==
    node.type = "SourceFile" =>
        /\ (\E i \in 1..Len(node.symlink) : NotSingleComponent(node.symlink[i])) =>
               /\ resolved.tag /= "none" => FailsHarvesting(resolved)
               /\ nbuilt.tag /= "none" => FailsHarvesting(nbuilt)
        /\ resolved.tag = "ok" =>
               \A i \in 1..Len(resolved.value.symlinks) :
                   DirectChild(resolved.value.symlinks[i], target_dir)
        /\ nbuilt.tag = "ok" =>
               \A i \in 1..Len(nbuilt.value) :
                   nbuilt.value[i].op = "Symlink" =>
                       DirectChild(nbuilt.value[i].staged, target_dir)

(***************************************************************************)
(* Claims about the specifications of spec.rs (checked under SpecNode).    *)
(***************************************************************************)
\* C11: resolving a SourceFile or a SourceFiles node whose source path is
\* not absolute returns an error of kind HarvestingFailed, so no
\* Specification is produced for it.
C11_RelativeSourceFails ==
    (node.type \in {"SourceFile", "SourceFiles"} /\ ~IsAbsolute(node.path)
        /\ resolved.tag /= "none") =>
        FailsHarvesting(resolved)

\* a rename that is one plain name: not empty, not "." or "..", no separator
SingleName(s) == PlainComponent(s)

\* dir/name, written out
Under(dir, name) == dir \o <<Sep>> \o name

\* C12: SymlinkBuilder::resolve (and Symlink::build) fails with
\* HarvestingFailed when there is no rename and the target has no final
\* component, and when the rename is not a single component; with a rename
\* that is one plain name, or no rename and a target that has a final
\* component, it succeeds with the link at target_dir joined with the rename
\* if given, else with the target's final component.
C12_SymlinkResolve ==
    (node.type = "Symlink" /\ resolved.tag /= "none") =>
        /\ (~node.rename.some /\ ~FileName(node.path).some) => FailsHarvesting(resolved)
        /\ (node.rename.some /\ NotSingleComponent(node.rename.val)) =>
               FailsHarvesting(resolved)
        /\ (node.rename.some /\ SingleName(node.rename.val)) =>
               /\ resolved.tag = "ok"
               /\ resolved.value.path = Under(target_dir, node.rename.val)
        /\ (~node.rename.some /\ FileName(node.path).some) =>
               /\ resolved.tag = "ok"
               /\ resolved.value.path = Under(target_dir, FileName(node.path).val)

\* the filename chosen for a SourceFile: its rename, else its source's last component
ChosenName(n) == IF n.rename.some THEN n.rename.val ELSE FileName(n.path).val

\* C13: a SourceFile that resolved and was staged with every call succeeding
\* has issued exactly 1 + n calls: the copy of the source to target_dir/f,
\* then for each alias in order a link at target_dir/alias to target_dir/f,
\* never to the source; SourceFile::build lists the same copy and links.
C13_CopyThenLinks ==
    node.type = "SourceFile" =>
        /\ stage_result.tag = "ok" =>
               /\ Len(ops) = 1 + Len(node.symlink)
               /\ ops[1] = FileFromPath(Under(target_dir, ChosenName(node)), node.path)
               /\ \A i \in 1..Len(node.symlink) :
                      /\ ops[i + 1] = SymlinkFile(Under(target_dir, node.symlink[i]),
                                                  Under(target_dir, ChosenName(node)))
                      /\ ops[i + 1].other /= node.path
        /\ nbuilt.tag = "ok" =>
               /\ Len(nbuilt.value) = 1 + Len(node.symlink)
               /\ nbuilt.value[1] = CopyFile(Under(target_dir, ChosenName(node)), node.path)
               /\ \A i \in 1..Len(node.symlink) :
                      nbuilt.value[i + 1] = SymlinkAction(Under(target_dir, node.symlink[i]),
                                                          Under(target_dir, ChosenName(node)))

C13_Witness ==
    /\ node.type = "SourceFile"
    /\ IsAbsolute(node.path)
    /\ node.rename = Some(<<"r">>)
    /\ node.symlink = <<<<"l">>, <<"l">>>>
    /\ stage_result.tag = "ok"
    /\ Len(ops) = 3

\* C14: a Symlink node with no rename that resolved and was staged has
\* issued exactly one call, symlink_file(target_dir/last component of t, t),
\* with t as given; for t = "/opt/app" the link is named "app" and points at
\* "/opt/app".
C14_SymlinkRoundTrip ==
    (node.type = "Symlink" /\ ~node.rename.some /\ stage_result.tag /= "none") =>
        /\ ops = <<SymlinkFile(Under(target_dir, FileName(node.path).val), node.path)>>
        /\ node.path = OptApp =>
               /\ FileName(ops[1].path) = Some(<<"a", "p", "p">>)
               /\ ops[1].other = OptApp

C14_Witness ==
    /\ node = SymlinkNode(OptApp, None)
    /\ stage_result.tag = "ok"
    /\ Len(ops) = 1

\* a walk that meets no file and no error
NoMatch(walk) == \A i \in 1..Len(walk) : walk[i].kind = "dir"

\* the number of calls of a stage outcome that succeeded
CopiedOk(r) ==
    IF r.res.tag = "err" /\ r.res.errors[1].kind = StagingFailed
    THEN Len(r.ops) - 1
    ELSE Len(r.ops)

\* the specification s with allow_empty set to b
WithAllowEmpty(s, b) == [s EXCEPT !.allow_empty = b]

\* staging s gives the same outcome whatever its allow_empty, for every
\* failing call that leaves at least one copy done
FlagIrrelevant(s, walk) ==
    \A f \in 0..Len(walk) : \A b \in BOOLEAN :
        CopiedOk(SourceFilesStage(s, walk, f)) >= 1 =>
            SourceFilesStage(WithAllowEmpty(s, b), walk, f) = SourceFilesStage(s, walk, f)

\* the walks SourceFiles::build ran
BuildWalks == SelectSeq(reads, LAMBDA w : w.by = "build")

\* C15: staging a SourceFiles whose walk meets no file fails with
\* HarvestingFailed when allow_empty is false, and succeeds with no call
\* made when it is true; once a file has been copied the flag does not
\* change the outcome.  SourceFiles::build treats an empty walk the same way.
C15_AllowEmpty ==
    node.type = "SourceFiles" =>
        /\ (stage_result.tag /= "none" /\ PatternsValid(node.pattern) /\ NoMatch(tree)) =>
               /\ ops = <<>>
               /\ ~node.allow_empty => FailsHarvesting(stage_result)
               /\ node.allow_empty => stage_result.tag = "ok"
        /\ stage_result.tag /= "none" => FlagIrrelevant(resolved.value, tree)
        /\ (nbuilt.tag /= "none" /\ BuildWalks /= <<>> /\ NoMatch(BuildWalks[1].saw)) =>
               /\ ~node.allow_empty => FailsHarvesting(nbuilt)
               /\ node.allow_empty => nbuilt = Ok(<<>>)

C15_Witness ==
    /\ node.type = "SourceFiles"
    /\ node.allow_empty
    /\ PatternsValid(node.pattern)
    /\ tree = <<DirEntry(<<"d">>)>>
    /\ stage_result.tag = "ok"
    /\ ops = <<>>

\* C16: when the copy of a staged SourceFile fails, symlink_file is still
\* called for each of its symlinks.
C16_LinksAfterFailedCopy ==
    (node.type = "SourceFile" /\ stage_result.tag = "err"
        /\ stage_result.errors[1].context[2] = resolved.value.dest) =>
        \A i \in 1..Len(resolved.value.symlinks) :
            \E j \in 1..Len(ops) :
                ops[j] = SymlinkFile(resolved.value.symlinks[i], resolved.value.dest)

(***************************************************************************)
(* Claims about the Filesystem target and perform (checked under SpecFs).  *)
(***************************************************************************)
StagingOps == {"directory", "file_from_path", "file_from_reader", "symlink_dir", "symlink_file"}

\* C17: every primitive called by a write operation of the Filesystem
\* target for a relative path creates or writes root joined with that path.
C17_WritesUnderRoot ==
    \A i \in 1..Len(fs_log) :
        (fs_log[i].op \in StagingOps /\ ~IsAbsolute(fs_log[i].path)) =>
            \A j \in 1..Len(fs_log[i].os) :
                fs_log[i].os[j].at = Under(fs_root, fs_log[i].path)

\* C18: performing Symlink{staged, target} creates the link at staged,
\* pointing to target, as its rendering "ln -s target staged" says; the
\* symlink methods of the Filesystem create the link at their path
\* argument (under the root or not) pointing to their target argument.
C18_LinkNotSwapped ==
    \A i \in 1..Len(fs_log) :
        \A j \in 1..Len(fs_log[i].os) :
            fs_log[i].os[j].prim = "symlink" =>
                /\ fs_log[i].op = "Symlink" =>
                       /\ fs_log[i].os[j].at = fs_log[i].path
                       /\ fs_log[i].os[j].from = fs_log[i].other
                       /\ SymlinkDisplay(fs_log[i].path, fs_log[i].other)
                              = <<"ln", "-s", fs_log[i].os[j].from, fs_log[i].os[j].at>>
                /\ fs_log[i].op \in {"symlink_file", "symlink_dir"} =>
                       /\ fs_log[i].os[j].at \in
                              {fs_log[i].path, Under(fs_root, fs_log[i].path)}
                       /\ fs_log[i].os[j].from = fs_log[i].other

(***************************************************************************)
(* Claims about side effects and about Errors.                             *)
(***************************************************************************)
\* the copies staging a SourceFiles over the walk makes when none fails
RECURSIVE CopiesOf(_, _, _)
CopiesOf(root, dir, walk) ==
    IF walk = <<>> THEN <<>>
    ELSE IF Head(walk).kind = "file"
         THEN <<FileFromPath(Under(dir, Head(walk).rel), Under(root, Head(walk).rel))>>
                  \o CopiesOf(root, dir, Tail(walk))
         ELSE CopiesOf(root, dir, Tail(walk))

\* C19 (checked under SpecNode): no call is made on the staging target
\* before stage is called, the source tree is walked by stage only, never
\* while a node is resolved or built, and a staged SourceFiles has copied
\* the files of the tree as it is when stage is called.
C19_ResolutionReadsNothing ==
    /\ stage_result.tag = "none" => ops = <<>>
    /\ \A i \in 1..Len(reads) : reads[i].by = "stage"
    /\ (node.type = "SourceFiles" /\ stage_result.tag = "ok" /\ Len(StageWalks) = 1) =>
           ops = CopiesOf(node.path, target_dir, tree)

\* C20 (checked under SpecBuild): an Err returned by Stage::build holds at
\* least one error and no value, and an Ok holds no error.
C20_ErrNeverEmpty ==
    /\ built.tag = "err" => built.errors /= <<>> /\ built.value = <<>>
    /\ built.tag = "ok" => built.errors = <<>>

C20_Witness ==
    /\ built.tag = "err"
    /\ Len(built.errors) = 2

(***************************************************************************)
(* Claims about the behaviour of stage, of ErrorPartition and of the two   *)
(* pipelines.                                                              *)
(***************************************************************************)
\* a is a prefix of b
IsPrefix(a, b) == Len(a) <= Len(b) /\ a = SubSeq(b, 1, Len(a))

\* the calls a resolved SourceFile is to make: the copy, then its links
CopyAndLinks(s) ==
    <<FileFromPath(s.dest, s.source)>>
        \o [i \in 1..Len(s.symlinks) |-> SymlinkFile(s.symlinks[i], s.dest)]

\* C21 (checked under SpecNode): the calls of a staged SourceFile are a
\* non-empty prefix of [copy, link 1, ..., link n] and nothing else (nothing
\* is undone); all of them when stage returns Ok; when it returns Err the
\* error is the one of the last call made, so no call follows the failing
\* one and a link is only ever attempted after the copy succeeded.
C21_FailFast ==
    (node.type = "SourceFile" /\ stage_result.tag /= "none") =>
        /\ ops /= <<>>
        /\ IsPrefix(ops, CopyAndLinks(resolved.value))
        /\ stage_result.tag = "ok" => ops = CopyAndLinks(resolved.value)
        /\ stage_result.tag = "err" =>
               /\ Len(stage_result.errors) = 1
               /\ stage_result.errors[1].kind = StagingFailed
               /\ stage_result.errors[1].context[2] = ops[Len(ops)].path
        /\ \A j \in 1..Len(ops) :
               ops[j].op = "symlink_file" =>
                   /\ ops[1].op = "file_from_path"
                   /\ j > 1
                   /\ ~(stage_result.tag = "err"
                          /\ stage_result.errors[1].context[2] = ops[1].path)

C21_Witness ==
    /\ node.type = "SourceFile"
    /\ Len(node.symlink) = 2
    /\ stage_result.tag = "err"
    /\ Len(ops) = 2

\* the payloads of the Ok items of a sequence of Results, in order
OkItems(results) ==
    [i \in 1..Len(SelectSeq(results, LAMBDA r : r.tag = "ok")) |->
        SelectSeq(results, LAMBDA r : r.tag = "ok")[i].value]

\* the errors of the Err items of a sequence of Results, in order
RECURSIVE ErrsOf(_)
ErrsOf(results) ==
    IF results = <<>> THEN <<>>
    ELSE (IF Head(results).tag = "err" THEN Head(results).errors ELSE <<>>)
             \o ErrsOf(Tail(results))

\* the Results of building the nodes of one target of a stage map
NodeResults(st, dir, key) ==
    [i \in 1..Len(st[key]) |-> NodeBuild(st[key][i], Join(dir, key))]

\* what the shared Errors may hold before the partition is drained
PriorErrors == {<<>>, <<StagingError(StagingFailed, <<"earlier", <<>>>>)>>}

PartitionIsCollectAll(results, prior) ==
    /\ ErrorPartition(results, prior).items = OkItems(results)
    /\ ErrorPartition(results, prior).errors = prior \o ErrsOf(results)
    /\ Len(ErrorPartition(results, prior).items)
           + Cardinality({i \in 1..Len(results) : results[i].tag = "err"})
         = Len(results)

\* C22 (checked under SpecBuild): ErrorPartition over the Results of the
\* nodes of any target yields exactly the Ok payloads in order and leaves
\* the shared Errors extended, after what it held, with the errors of every
\* Err item in order; yielded items and Err items add up to the input; and
\* the errors Stage::build returns for a target are those of all its
\* failing nodes.
C22_CollectAll ==
    /\ \A key \in DOMAIN stage : \A prior \in PriorErrors :
           PartitionIsCollectAll(NodeResults(stage, target_dir, key), prior)
    /\ (built.tag = "err"
          /\ built.errors[1].context[1] /= "target must be relative to the stage root") =>
           \E key \in DOMAIN stage :
               built.errors = ErrsOf(NodeResults(stage, target_dir, key))

C22_Witness ==
    /\ built.tag = "err"
    /\ Len(built.errors) = 2
    /\ \E key \in DOMAIN stage : stage[key] = <<NodeBadRename, NodePlain, NodeBadRename>>

\* the entries of a walk that come before its first error
RECURSIVE BeforeErr(_)
BeforeErr(walk) ==
    IF walk = <<>> \/ Head(walk).kind = "err" THEN <<>>
    ELSE <<Head(walk)>> \o BeforeErr(Tail(walk))

\* C23 (checked under SpecNode): a SourceFiles staged once makes one call
\* file_from_path(target_dir/r, root/r) per file entry root/r, in walk
\* order, and none for a directory; on Ok every file of the walk was
\* copied; a walk error or a failed copy ends the run with that one error,
\* the copies made before it stay, and the 'no files' error is returned
\* only when no call was made.
C23_CopyPerFile ==
    (node.type = "SourceFiles" /\ Len(StageWalks) = 1) =>
        /\ IsPrefix(ops, CopiesOf(node.path, target_dir, BeforeErr(tree)))
        /\ stage_result.tag = "ok" =>
               /\ BeforeErr(tree) = tree
               /\ ops = CopiesOf(node.path, target_dir, tree)
        /\ stage_result.tag = "err" =>
               /\ Len(stage_result.errors) = 1
               /\ stage_result.errors[1].kind = StagingFailed =>
                      stage_result.errors[1].context[2] = ops[Len(ops)].path
               /\ stage_result.errors[1].context[1] = "walk" =>
                      /\ BeforeErr(tree) /= tree
                      /\ ops = CopiesOf(node.path, target_dir, BeforeErr(tree))
               /\ stage_result.errors[1].context[1] = "SourceFiles found no files under" =>
                      ops = <<>>

C23_Witness ==
    /\ node.type = "SourceFiles"
    /\ tree = <<DirEntry(<<"d">>), FileEntry(<<"d", "/", "b">>)>>
    /\ Len(StageWalks) = 1
    /\ stage_result.tag = "ok"
    /\ Len(ops) = 1

\* the set of the elements of a sequence
Range(seq) == {seq[i] : i \in 1..Len(seq)}

C25_RenameNeverRescues ==
    (node.type \in {"SourceFile", "Symlink"} /\ ~FileName(node.path).some
        /\ resolved.tag /= "none") =>
        /\ FailsHarvesting(resolved)
        /\ stage_result.tag = "none"
        /\ ops = <<>>

C25_Witness ==
    /\ node.type = "SourceFile"
    /\ node.path = <<Sep>>
    /\ node.rename = Some(<<"r">>)
    /\ resolved.tag = "err"

\* the calls staging the resolved node makes when none fails
StagedCalls == SpecStage(node.type, resolved.value, <<>>, 0).ops

\* C26 (checked under SpecNode): for a SourceFile or Symlink node, build
\* succeeds exactly when resolve succeeds, and then the actions of build
\* name, in order, the destinations, sources and link targets of the calls
\* staging the resolved specification makes.
C26_PipelinesAgree ==
    (node.type \in {"SourceFile", "Symlink"} /\ resolved.tag /= "none"
        /\ nbuilt.tag /= "none") =>
        /\ resolved.tag = nbuilt.tag
        /\ resolved.tag = "ok" =>
               /\ Len(nbuilt.value) = Len(StagedCalls)
               /\ \A i \in 1..Len(nbuilt.value) :
                      /\ nbuilt.value[i].staged = StagedCalls[i].path
                      /\ nbuilt.value[i].other = StagedCalls[i].other
                      /\ (nbuilt.value[i].op = "CopyFile")
                             = (StagedCalls[i].op = "file_from_path")

====
